---------------------------- MODULE Spec2Model ----------------------------
(***************************************************************************)
(* Model of src/main.cpp: the reference generators (xorshift32 ...         *)
(* mulberry32), the integer-to-double conversions, and the bounded-integer *)
(* samplers Lemire and LemireOneil.                                        *)
(*                                                                         *)
(* Machine words.  TLC's integers are 32-bit signed, so a uintN_t value is *)
(* kept in the state as a tuple of 16-bit limbs, most significant first:   *)
(* the uint32_t 0x00042021 is <<\h0004, \h2021>>, a uint64_t has four      *)
(* limbs.  Inside an operator a word is a bit vector: a function from      *)
(* 1..w to {0,1}, bit 1 the least significant.  All arithmetic is done on  *)
(* bit vectors of the width the C type has, so wrap-around is the code's.  *)
(***************************************************************************)
EXTENDS Integers, Sequences, FiniteSets, TLC

----------------------------------------------------------------------------
(* Bit vectors *)

\* TLC builds [i \in S |-> e] lazily and re-evaluates e at every application;
\* concatenation with the empty tuple makes it a tuple, evaluated once.
Vec(f) == f \o <<>>

\* The bit vector of width w of the limb tuple v (missing high limbs are 0).
Bits(v, w) ==
  Vec([i \in 1..w |->
     LET j == Len(v) - ((i - 1) \div 16)
     IN  IF j < 1 THEN 0 ELSE (v[j] \div 2^((i - 1) % 16)) % 2])

RECURSIVE SumBits(_, _, _)
\* The number whose binary digits are a[lo..hi] (at most 16 of them).
SumBits(a, lo, hi) ==
  IF lo > hi THEN 0 ELSE a[lo] + 2 * SumBits(a, lo + 1, hi)

\* The limb tuple of the bit vector a.
Pack(a) ==
  LET w == Len(a)
      n == (w + 15) \div 16
  IN  Vec([j \in 1..n |->
         LET lo == 16 * (n - j) + 1
             hi == IF lo + 15 > w THEN w ELSE lo + 15
         IN  SumBits(a, lo, hi)])

\* A conversion between unsigned types: truncation or zero extension to w bits.
Cast(a, w) == Vec([i \in 1..w |-> IF i <= Len(a) THEN a[i] ELSE 0])

ZeroBits(w) == Vec([i \in 1..w |-> 0])
OneBits(w)  == Vec([i \in 1..w |-> IF i = 1 THEN 1 ELSE 0])

Xor(a, b) == Vec([i \in 1..Len(a) |-> (a[i] + b[i]) % 2])
Or(a, b)  == Vec([i \in 1..Len(a) |-> IF a[i] + b[i] > 0 THEN 1 ELSE 0])
Not(a)    == Vec([i \in 1..Len(a) |-> 1 - a[i]])

\* a << k and a >> k on an unsigned type of Len(a) bits, 0 <= k < Len(a).
Shl(a, k) == Vec([i \in 1..Len(a) |-> IF i > k THEN a[i - k] ELSE 0])
Shr(a, k) == Vec([i \in 1..Len(a) |-> IF i + k <= Len(a) THEN a[i + k] ELSE 0])

\* The carry into bit i of a + b: some lower bit generates one and every bit
\* between propagates it.
Carry(a, b, i) ==
  \E j \in 1..(i - 1) :
     /\ a[j] + b[j] = 2
     /\ \A k \in (j + 1)..(i - 1) : a[k] + b[k] >= 1

\* a + b on an unsigned type of Len(a) bits: the sum modulo 2^Len(a).
Add(a, b) ==
  Vec([i \in 1..Len(a) |->
         (a[i] + b[i] + (IF Carry(a, b, i) THEN 1 ELSE 0)) % 2])

\* -a and a - b on an unsigned type: two's complement, modulo 2^Len(a).
Neg(a)    == Add(Not(a), OneBits(Len(a)))
Sub(a, b) == Add(a, Neg(b))

\* The j-th base-256 digit of a (j = 1 the least significant).
Digit(a, j) ==
  SumBits(a, 8 * (j - 1) + 1, IF 8 * j > Len(a) THEN Len(a) ELSE 8 * j)

RECURSIVE ColumnSum(_, _, _, _)
\* Digit(a,1)*Digit(b,k) + ... + Digit(a,i)*Digit(b,k+1-i).
ColumnSum(a, b, k, i) ==
  IF i < 1 THEN 0
  ELSE Digit(a, i) * Digit(b, k + 1 - i) + ColumnSum(a, b, k, i - 1)

RECURSIVE MulFrom(_, _, _, _, _)
\* Schoolbook multiplication in base 256, digits k.. with the carry so far;
\* acc holds the product's digits below k.
MulFrom(a, b, k, carry, acc) ==
  IF 8 * (k - 1) >= Len(a) THEN acc
  ELSE LET s == carry + ColumnSum(a, b, k, k)
       IN  IF s < 256 THEN MulFrom(a, b, k + 1, 0, Append(acc, s))
           ELSE MulFrom(a, b, k + 1, s \div 256, Append(acc, s % 256))

\* a * b on an unsigned type of Len(a) bits: the product modulo 2^Len(a).
Mul(a, b) ==
  LET d == MulFrom(a, b, 1, 0, <<>>)
  IN  Vec([i \in 1..Len(a) |-> (d[((i - 1) \div 8) + 1] \div 2^((i - 1) % 8)) % 2])

\* a < b, unsigned.
Lt(a, b) ==
  \E i \in 1..Len(a) :
     /\ a[i] < b[i]
     /\ \A j \in (i + 1)..Len(a) : a[j] = b[j]

RECURSIVE ModFrom(_, _, _, _)
\* Long division: r is the remainder of the bits of a above bit i, one bit
\* wider than a so that 2*r+1 fits.
ModFrom(a, b, i, r) ==
  IF i < 1 THEN r
  ELSE LET r2 == Vec([j \in 1..Len(r) |-> IF j = 1 THEN a[i] ELSE r[j - 1]])
       IN  IF Lt(r2, b) THEN ModFrom(a, b, i - 1, r2)
           ELSE ModFrom(a, b, i - 1, Sub(r2, b))

\* a % b on an unsigned type of Len(a) bits, b # 0.
Mod(a, b) ==
  Cast(ModFrom(a, Cast(b, Len(a) + 1), Len(a), ZeroBits(Len(a) + 1)), Len(a))

----------------------------------------------------------------------------
(* The generators: next() of each class.  A generator's state is the tuple *)
(* of its fields; next() returns [state |-> the fields after the call,     *)
(* result |-> the value returned].                                         *)

\* Variant of Xorshift32_next with the first two steps exchanged.
Xorshift32_next_swapped(st) ==
  LET x0 == Bits(st[1], 32)
      x1 == Xor(x0, Shr(x0, 17))
      x2 == Xor(x1, Shl(x1, 13))
      x3 == Xor(x2, Shl(x2, 5))
  IN  [state |-> <<Pack(x3)>>, result |-> Pack(x3)]

Xorshift32_next(st) ==
  LET x0 == Bits(st[1], 32)
      x1 == Xor(x0, Shl(x0, 13))
      x2 == Xor(x1, Shr(x1, 17))
      x3 == Xor(x2, Shl(x2, 5))
  IN  [state |-> <<Pack(x3)>>, result |-> Pack(x3)]

\* Variant of Xorshift64_next that replaces an all-zero state by 1 before
\* stepping.
Xorshift64_next_guarded(st) ==
  LET x0 == IF st[1] = <<0, 0, 0, 0>> THEN Bits(<<1>>, 64) ELSE Bits(st[1], 64)
      x1 == Xor(x0, Shl(x0, 13))
      x2 == Xor(x1, Shr(x1, 7))
      x3 == Xor(x2, Shl(x2, 17))
  IN  [state |-> <<Pack(x3)>>, result |-> Pack(x3)]

Xorshift64_next(st) ==
  LET x0 == Bits(st[1], 64)
      x1 == Xor(x0, Shl(x0, 13))
      x2 == Xor(x1, Shr(x1, 7))
      x3 == Xor(x2, Shl(x2, 17))
  IN  [state |-> <<Pack(x3)>>, result |-> Pack(x3)]

\* Fields a, b, c, d.
Xorshift128_next(st) ==
  LET t0 == Bits(st[4], 32)
      s  == Bits(st[1], 32)
      t1 == Xor(t0, Shl(t0, 11))
      t2 == Xor(t1, Shr(t1, 8))
      a  == Xor(Xor(t2, s), Shr(s, 19))
  IN  [state |-> <<Pack(a), st[1], st[2], st[3]>>, result |-> Pack(a)]

\* Fields s[0], s[1].
Xorshift128p_next(st) ==
  LET s1a    == Bits(st[1], 64)
      s0     == Bits(st[2], 64)
      result == Add(s0, s1a)
      s1b    == Xor(s1a, Shl(s1a, 23))
      new1   == Xor(Xor(Xor(s1b, s0), Shr(s1b, 18)), Shr(s0, 5))
  IN  [state |-> <<st[2], Pack(new1)>>, result |-> Pack(result)]

xoshiro128pp_rotl(x, k) == Or(Shl(x, k), Shr(x, 32 - k))

\* Fields s[0..3].
Xoshiro128pp_next(st) ==
  LET s0 == Bits(st[1], 32)
      s1 == Bits(st[2], 32)
      s2 == Bits(st[3], 32)
      s3 == Bits(st[4], 32)
      result == Add(xoshiro128pp_rotl(Add(s0, s3), 7), s0)
      t   == Shl(s1, 9)
      s2a == Xor(s2, s0)
      s3a == Xor(s3, s1)
      s1a == Xor(s1, s2a)
      s0a == Xor(s0, s3a)
      s2b == Xor(s2a, t)
      s3b == xoshiro128pp_rotl(s3a, 11)
  IN  [state |-> <<Pack(s0a), Pack(s1a), Pack(s2b), Pack(s3b)>>,
       result |-> Pack(result)]

xoshiro256pp_rotl(x, k) == Or(Shl(x, k), Shr(x, 64 - k))

\* Fields s[0..3].
Xoshiro256pp_next(st) ==
  LET s0 == Bits(st[1], 64)
      s1 == Bits(st[2], 64)
      s2 == Bits(st[3], 64)
      s3 == Bits(st[4], 64)
      result == Add(xoshiro256pp_rotl(Add(s0, s3), 23), s0)
      t   == Shl(s1, 17)
      s2a == Xor(s2, s0)
      s3a == Xor(s3, s1)
      s1a == Xor(s1, s2a)
      s0a == Xor(s0, s3a)
      s2b == Xor(s2a, t)
      s3b == xoshiro256pp_rotl(s3a, 45)
  IN  [state |-> <<Pack(s0a), Pack(s1a), Pack(s2b), Pack(s3b)>>,
       result |-> Pack(result)]

Splitmix64_next(st) ==
  LET x  == Add(Bits(st[1], 64), Bits(<<\h9e37, \h79b9, \h7f4a, \h7c15>>, 64))
      z1 == Mul(Xor(x, Shr(x, 30)), Bits(<<\hbf58, \h476d, \h1ce4, \he5b9>>, 64))
      z2 == Mul(Xor(z1, Shr(z1, 27)), Bits(<<\h94d0, \h49bb, \h1331, \h11eb>>, 64))
  IN  [state |-> <<Pack(x)>>, result |-> Pack(Xor(z2, Shr(z2, 31)))]

\* Variant of Mulberry32_next in which z is a uint64_t too: nothing is cut to
\* 32 bits before the value is returned.
Mulberry32_next_wide(st) ==
  LET x  == Add(Bits(st[1], 64), Bits(<<\h6D2B, \h79F5>>, 64))
      z1 == Mul(Xor(x, Shr(x, 15)), Or(x, Bits(<<1>>, 64)))
      z2 == Xor(z1, Add(z1, Mul(Xor(z1, Shr(z1, 7)), Or(z1, Bits(<<61>>, 64)))))
  IN  [state |-> <<Pack(x)>>, result |-> Pack(Cast(Xor(z2, Shr(z2, 14)), 32))]

\* The field x is a uint64_t; z is a uint32_t; the literals are unsigned long
\* (64 bits), so each right-hand side is computed in 64 bits and truncated
\* when it is stored in z.
Mulberry32_next(st) ==
  LET x  == Add(Bits(st[1], 64), Bits(<<\h6D2B, \h79F5>>, 64))
      z0 == Cast(x, 32)
      z1 == Cast(Mul(Cast(Xor(z0, Shr(z0, 15)), 64),
                     Or(Cast(z0, 64), Bits(<<1>>, 64))), 32)
      z2 == Xor(z1,
                Cast(Add(Cast(z1, 64),
                         Mul(Cast(Xor(z1, Shr(z1, 7)), 64),
                             Or(Cast(z1, 64), Bits(<<61>>, 64)))), 32))
  IN  [state |-> <<Pack(x)>>, result |-> Pack(Xor(z2, Shr(z2, 14)))]

\* Alg32::next / Alg64::next: the virtual call, by the class's alg_name.
Alg_next(name, st) ==
  CASE name = "xorshift32"   -> Xorshift32_next(st)
    [] name = "xorshift64"   -> Xorshift64_next(st)
    [] name = "xorshift128"  -> Xorshift128_next(st)
    [] name = "xorshift128+" -> Xorshift128p_next(st)
    [] name = "xoshiro128++" -> Xoshiro128pp_next(st)
    [] name = "xoshiro256++" -> Xoshiro256pp_next(st)
    [] name = "splitmix64"   -> Splitmix64_next(st)
    [] name = "mulberry32"   -> Mulberry32_next(st)

----------------------------------------------------------------------------
(* The bounded samplers.  The operators take the width w of the sampler's  *)
(* word: uint32_t is w = 32 and uint64_t is 2*w = 64 in the source.  A     *)
(* second specification runs the same operators on a narrower word, where  *)
(* every range and every raw value can be enumerated.                      *)

\* uint32_t and uint64_t of BoundedInt32 and its subclasses.
WordBits == 32

\* The value of "threshold" / "t" before nextBounded() has assigned it.
NoThreshold == <<>>

\* Lemire: multiresult = random32bit * range, both operands uint64_t.
Lemire_multiresult(w, range, random32bit) ==
  Mul(Cast(Bits(random32bit, w), 2 * w), Cast(Bits(range, w), 2 * w))

\* Variant of Lemire_threshold that leaves out "% range".
Lemire_threshold_nomod(w, range) == Pack(Neg(Bits(range, w)))

\* Variant of Lemire_threshold without rejection: the threshold is 0.
Lemire_threshold_zero(w, range) == Pack(ZeroBits(w))

\* Lemire: threshold = -range % range, on uint32_t.
Lemire_threshold(w, range) ==
  LET r == Bits(range, w) IN Pack(Mod(Neg(r), r))

\* Variant of Lemire_pass that returns the low half of the product, not the
\* high half.
Lemire_pass_low(w, range, first, threshold, random32bit) ==
  LET multiresult == Lemire_multiresult(w, range, random32bit)
      leftover    == Cast(multiresult, w)
      enters      == first /\ Lt(leftover, Bits(range, w))
      t           == IF enters THEN Lemire_threshold(w, range) ELSE threshold
      loops       == IF first THEN enters /\ Lt(leftover, Bits(t, w))
                     ELSE Lt(leftover, Bits(t, w))
  IN  [done      |-> ~loops,
       value     |-> Pack(leftover),
       threshold |-> t,
       divides   |-> enters]

\* One pass of Lemire::nextBounded with the raw value random32bit: from its
\* entry (first) to the first evaluation of the while condition, or one
\* iteration of the while loop.  done: the method returns value; otherwise
\* control is at the top of the loop body.  divides: "%" was evaluated.
Lemire_pass(w, range, first, threshold, random32bit) ==
  LET multiresult == Lemire_multiresult(w, range, random32bit)
      leftover    == Cast(multiresult, w)
      enters      == first /\ Lt(leftover, Bits(range, w))
      t           == IF enters THEN Lemire_threshold(w, range) ELSE threshold
      loops       == IF first THEN enters /\ Lt(leftover, Bits(t, w))
                     ELSE Lt(leftover, Bits(t, w))
  IN  [done      |-> ~loops,
       value     |-> Pack(Cast(Shr(multiresult, w), w)),
       threshold |-> t,
       divides   |-> enters]

\* Variant of LemireOneil_m that multiplies before widening: the product is
\* cut to the word and its high half is lost.
LemireOneil_m_narrow(w, range, x) ==
  Cast(Mul(Bits(x, w), Bits(range, w)), 2 * w)

\* LemireOneil: m = (uint64_t)x * (uint64_t)range.
LemireOneil_m(w, range, x) ==
  Mul(Cast(Bits(x, w), 2 * w), Cast(Bits(range, w), 2 * w))

\* Variant of LemireOneil_t that subtracts once and never reduces further.
LemireOneil_t_once(w, range) ==
  LET r  == Bits(range, w)
      t0 == Neg(r)
  IN  [t |-> Pack(IF Lt(t0, r) THEN t0 ELSE Sub(t0, r)), divides |-> FALSE]

\* LemireOneil: t = -range; if (t >= range) { t -= range; if (t >= range)
\* t %= range; }.  divides: "%=" was evaluated.
LemireOneil_t(w, range) ==
  LET r  == Bits(range, w)
      t0 == Neg(r)
      t1 == Sub(t0, r)
  IN  IF Lt(t0, r) THEN [t |-> Pack(t0), divides |-> FALSE]
      ELSE IF Lt(t1, r) THEN [t |-> Pack(t1), divides |-> FALSE]
      ELSE [t |-> Pack(Mod(t1, r)), divides |-> TRUE]

\* One pass of LemireOneil::nextBounded, as Lemire_pass.
LemireOneil_pass(w, range, first, threshold, x) ==
  LET m      == LemireOneil_m(w, range, x)
      l      == Cast(m, w)
      enters == first /\ Lt(l, Bits(range, w))
      tt     == LemireOneil_t(w, range)
      t      == IF enters THEN tt.t ELSE threshold
      loops  == IF first THEN enters /\ Lt(l, Bits(t, w))
                ELSE Lt(l, Bits(t, w))
  IN  [done      |-> ~loops,
       value     |-> Pack(Cast(Shr(m, w), w)),
       threshold |-> t,
       divides   |-> enters /\ tt.divides]

\* BoundedInt32::nextBounded: the virtual call, by class.
nextBounded_pass(class, w, range, first, threshold, x) ==
  IF class = "Lemire" THEN Lemire_pass(w, range, first, threshold, x)
  ELSE LemireOneil_pass(w, range, first, threshold, x)

\* BoundedInt32::print: assert(x>=0); assert(x<this->range); on uint32_t.
print_asserts(w, range, x) ==
  /\ ~Lt(Bits(x, w), ZeroBits(w))
  /\ Lt(Bits(x, w), Bits(range, w))

----------------------------------------------------------------------------
(* State *)

VARIABLES
  range,      \* BoundedInt32::range, the same for both samplers
  gen,        \* gen[s]: the fields of sampler s's own backing Xorshift32
  pc,         \* pc[s]: "idle" between calls, "loop" inside the while loop of
              \* nextBounded(), "trapped" after a division by zero
  threshold,  \* threshold[s]: the local threshold / t of the call in progress
              \* or of the last call, NoThreshold if that call never set it
  bounded,    \* bounded[s]: the values nextBounded() has returned, in order
  draws,      \* draws[s]: the number of nextRaw32() calls made so far,
              \* counted up to MaxDraws
  calls,      \* calls[s]: the number of nextBounded() calls begun so far
  asserted,   \* asserted[s]: print's two assertions held of every value
  alg,        \* alg_name of the two generator instances
  seed,       \* the seed both were constructed with
  inst,       \* inst[i]: the fields of generator instance i
  outs,       \* outs[i]: the values instance i's next() has returned, in order
  cin,        \* the 64-bit pattern given to the conversions
  conv        \* the doubles print() computed from cin

samplerVars == <<range, gen, pc, threshold, bounded, draws, calls, asserted>>
genVars     == <<alg, seed, inst, outs>>
convVars    == <<cin, conv>>
vars        == <<samplerVars, genVars, convVars>>

\* Calls of nextBounded() on one sampler, and of next() on one generator.
MaxCalls == 3

\* The count of raw draws stops here (a call may draw for ever).
MaxDraws == 9

\* checkOneilMatchesLemire: auto a = Lemire(...), auto b = LemireOneil(...).
Samplers == {"a", "b"}
ClassOf(s) == IF s = "a" THEN "Lemire" ELSE "LemireOneil"

\* The ranges main() and checkOneilMatchesLemireAll() use, and ranges next to
\* 2^32/3, 2^31 and 2^32, where the threshold changes its branch.
Ranges32 ==
  { <<0, 1>>, <<0, 2>>, <<0, 3>>, <<0, 100>>, <<0, 1000>>, <<\h0002, \h976a>>,
    <<\h0f41, \h9dc8>>, <<\h32e7, \haeec>>,
    <<\h5555, \h5555>>, <<\h5555, \h5556>>,
    <<\h7FFF, \hFFFF>>, <<\h8000, \h0000>>, <<\h8000, \h0001>>,
    <<\hAAAA, \hAAAB>>, <<\hFFFF, \hFFFE>>, <<\hFFFF, \hFFFF>> }

\* Seeds of the backing Xorshift32: 1, 42 and 777 as in main(), and the
\* all-zero state, from which every raw value is 0.
Seeds32 == { <<0, 0>>, <<0, 1>>, <<0, 42>>, <<0, 777>> }

IdleSamplers(r, seeds) ==
  /\ range \in r
  /\ \E sd \in seeds : gen = [s \in Samplers |-> <<sd>>]
  /\ pc = [s \in Samplers |-> "idle"]
  /\ threshold = [s \in Samplers |-> NoThreshold]
  /\ bounded = [s \in Samplers |-> <<>>]
  /\ draws = [s \in Samplers |-> 0]
  /\ calls = [s \in Samplers |-> 0]
  /\ asserted = [s \in Samplers |-> TRUE]

NoGenerators ==
  /\ alg = "xorshift32"
  /\ seed = << <<0, 1>> >>
  /\ inst = [i \in {1, 2} |-> seed]
  /\ outs = [i \in {1, 2} |-> <<>>]

NoConversions ==
  /\ cin = <<0, 0, 0, 0>>
  /\ conv = <<>>

\* What a division by zero may do: the process is killed, or "%" yields some
\* value; otherwise the step is defined.
Outcomes(divides, w) ==
  IF divides /\ Bits(range, w) = ZeroBits(w) THEN {"trap", "zero", "ones"}
  ELSE {"defined"}

\* One pass of nextBounded() on sampler s with the raw value x, after which
\* the backing generator's fields are g; the raw draws are counted up to cap.
Pass(w, s, x, g, cap) ==
  LET first == pc[s] = "idle"
      p == nextBounded_pass(ClassOf(s), w, range, first, threshold[s], x)
  IN  /\ gen' = [gen EXCEPT ![s] = g]
      /\ draws' = [draws EXCEPT ![s] = IF @ < cap THEN @ + 1 ELSE @]
      /\ calls' = [calls EXCEPT ![s] = IF first THEN @ + 1 ELSE @]
      /\ \E o \in Outcomes(p.divides, w) :
           IF o = "trap"
           THEN /\ pc' = [pc EXCEPT ![s] = "trapped"]
                /\ UNCHANGED <<threshold, bounded, asserted>>
           ELSE LET t == CASE o = "zero" -> Pack(ZeroBits(w))
                           [] o = "ones" -> Pack(Not(ZeroBits(w)))
                           [] OTHER      -> p.threshold
                    q == IF o = "defined" THEN p
                         ELSE nextBounded_pass(ClassOf(s), w, range, FALSE, t, x)
                IN  /\ threshold' = [threshold EXCEPT ![s] = t]
                    /\ pc' = [pc EXCEPT ![s] = IF q.done THEN "idle" ELSE "loop"]
                    /\ bounded' = [bounded EXCEPT ![s] =
                                     IF q.done THEN Append(@, q.value) ELSE @]
                    /\ asserted' = [asserted EXCEPT ![s] =
                                     IF q.done
                                     THEN @ /\ print_asserts(w, range, q.value)
                                     ELSE @]

\* The program is single-threaded: a call begins only when no call is in
\* progress, and a killed process does nothing more.
Quiet == \A s \in Samplers : pc[s] = "idle"

\* BoundedInt32::nextRaw32 on the sampler's Xorshift32.
NextBounded(s) ==
  /\ Quiet
  /\ calls[s] < MaxCalls
  /\ LET n == Xorshift32_next(gen[s])
     IN  Pass(WordBits, s, n.result, n.state, MaxDraws)
  /\ UNCHANGED <<range, genVars, convVars>>

\* Variant of Redraw with an iteration cap: after two raw draws the loop is
\* left and the value of the last product is returned.
Redraw_capped(s) ==
  /\ pc[s] = "loop"
  /\ LET n == Xorshift32_next(gen[s])
     IN  IF draws[s] < 2
         THEN Pass(WordBits, s, n.result, n.state, MaxDraws)
         ELSE /\ gen' = [gen EXCEPT ![s] = n.state]
              /\ draws' = [draws EXCEPT ![s] = IF @ < MaxDraws THEN @ + 1 ELSE @]
              /\ pc' = [pc EXCEPT ![s] = "idle"]
              /\ bounded' = [bounded EXCEPT ![s] =
                    Append(@, Pack(Cast(Shr(Lemire_multiresult(WordBits, range,
                                                               n.result),
                                            WordBits), WordBits)))]
              /\ UNCHANGED <<calls, threshold, asserted>>
  /\ UNCHANGED <<range, genVars, convVars>>

\* The next iteration of the while loop of the call in progress.
Redraw(s) ==
  /\ pc[s] = "loop"
  /\ LET n == Xorshift32_next(gen[s])
     IN  Pass(WordBits, s, n.result, n.state, MaxDraws)
  /\ UNCHANGED <<range, genVars, convVars>>

Init ==
  /\ IdleSamplers(Ranges32, Seeds32)
  /\ NoGenerators
  /\ NoConversions

Next ==
  \/ \E s \in Samplers : NextBounded(s)
  \/ \E s \in Samplers : Redraw(s)

Spec == Init /\ [][Next]_vars

----------------------------------------------------------------------------
(* Misuse: the constructor of BoundedInt32 stores whatever range it is     *)
(* given, 0 included.                                                      *)

InitMisuse ==
  /\ IdleSamplers(Ranges32 \cup { <<0, 0>> }, Seeds32)
  /\ NoGenerators
  /\ NoConversions

SpecMisuse == InitMisuse /\ [][Next]_vars

----------------------------------------------------------------------------
(* The samplers on a narrow word.  nextBounded() is written for uint32_t    *)
(* and uint64_t; here the same operators run with SmallBits in place of 32  *)
(* and 2*SmallBits in place of 64, on every range and with a backing        *)
(* generator (any subclass of Alg32) that may return any raw value.  One    *)
(* sampler is constructed in a run and nextBounded() is called on it once;  *)
(* gen[s] holds the raw value last drawn.                                   *)

SmallBits == 5

\* The count of raw draws of the narrow sampler stops here.
ScaledDraws == 2

ScaledWords  == { <<n>> : n \in 0..(2^SmallBits - 1) }
ScaledRanges == ScaledWords \ { <<0>> }

ScaledNextBounded(s) ==
  /\ \A o \in Samplers : calls[o] = 0
  /\ \E x \in ScaledWords : Pass(SmallBits, s, x, <<x>>, ScaledDraws)
  /\ UNCHANGED <<range, genVars, convVars>>

ScaledRedraw(s) ==
  /\ pc[s] = "loop"
  /\ \E x \in ScaledWords : Pass(SmallBits, s, x, <<x>>, ScaledDraws)
  /\ UNCHANGED <<range, genVars, convVars>>

InitScaled ==
  /\ IdleSamplers(ScaledRanges, { <<0>> })
  /\ NoGenerators
  /\ NoConversions

NextScaled ==
  \/ \E s \in Samplers : ScaledNextBounded(s)
  \/ \E s \in Samplers : ScaledRedraw(s)

SpecScaled == InitScaled /\ [][NextScaled]_vars

----------------------------------------------------------------------------
(* The generators.  Two instances of one class are constructed with the    *)
(* same seed, as two runs of main() construct them; next() is called on    *)
(* either, in any order, between the nextBounded() calls of a Lemire       *)
(* sampler that owns its own Xorshift32.                                   *)

Instances == {1, 2}

\* Generators of main()'s list, by alg_name and the fields the constructor
\* stores, and the all-zero state of the three xorshift generators.
Catalogue ==
  { [alg |-> "xorshift32", seed |-> << <<0, 1>> >>],
    [alg |-> "xorshift32", seed |-> << <<0, 42>> >>],
    [alg |-> "xorshift32", seed |-> << <<0, 0>> >>],
    [alg |-> "xorshift64", seed |-> << <<0, 0, 0, 1>> >>],
    [alg |-> "xorshift64", seed |-> << <<\h2b99, \h2ddf, \ha232, \h49d6>> >>],
    [alg |-> "xorshift64", seed |-> << <<0, 0, 0, 0>> >>],
    [alg |-> "xorshift128", seed |-> << <<0, 1>>, <<0, 2>>, <<0, 3>>, <<0, 4>> >>],
    [alg |-> "xorshift128",
     seed |-> << <<\h406f, \h51c3>>, <<\h75c0, \h339a>>,
                 <<\hb060, \hcf5c>>, <<\h5e24, \hacc6>> >>],
    [alg |-> "xorshift128", seed |-> << <<0, 0>>, <<0, 0>>, <<0, 0>>, <<0, 0>> >>],
    [alg |-> "xorshift128+", seed |-> << <<0, 0, 0, 1>>, <<0, 0, 0, 2>> >>],
    [alg |-> "xorshift128+",
     seed |-> << <<\h7446, \h7e08, \h4dee, \ha7fd>>,
                 <<\h16f1, \h0922, \hef9b, \hcd64>> >>],
    [alg |-> "xoshiro128++", seed |-> << <<0, 1>>, <<0, 2>>, <<0, 3>>, <<0, 4>> >>],
    [alg |-> "xoshiro128++", seed |-> << <<0, 5>>, <<0, 23>>, <<0, 42>>, <<0, 777>> >>],
    [alg |-> "xoshiro256++",
     seed |-> << <<0, 0, 0, 1>>, <<0, 0, 0, 2>>, <<0, 0, 0, 3>>, <<0, 0, 0, 4>> >>],
    [alg |-> "xoshiro256++",
     seed |-> << <<\h621b, \h97ff, \h9b08, \hce44>>,
                 <<\h9297, \h4ae6, \h33d5, \hee97>>,
                 <<\h9c7e, \h491e, \h8f08, \h1368>>,
                 <<\hf7d3, \hb43b, \hed07, \h8fa3>> >>],
    [alg |-> "splitmix64", seed |-> << <<0, 0, 0, 1>> >>],
    [alg |-> "splitmix64", seed |-> << <<0, 0, 0, 0>> >>],
    [alg |-> "splitmix64", seed |-> << <<\hf7d3, \hb43b, \hed07, \h8fa3>> >>],
    [alg |-> "mulberry32", seed |-> << <<0, 0, 0, 1>> >>],
    [alg |-> "mulberry32", seed |-> << <<0, 0, 0, 0>> >>],
    [alg |-> "mulberry32", seed |-> << <<0, 0, \h406f, \h51c3>> >>],
    \* Mulberry32 takes a uint64_t seed: a seed from which x += 0x6D2B79F5
    \* carries into bit 32, and seeds with bits above bit 31 set.
    [alg |-> "mulberry32", seed |-> << <<0, 0, \hFFFF, \hFFFF>> >>],
    [alg |-> "mulberry32", seed |-> << <<\h0123, \h4567, 0, 1>> >>],
    [alg |-> "mulberry32", seed |-> << <<\hFFFF, \hFFFF, \hFFFF, \hFFFF>> >>] }

\* Variant of GenNext in which the fields are static members, shared by all
\* instances of the class.
GenNext_static(i) ==
  /\ Quiet
  /\ Len(outs[i]) < MaxCalls
  /\ LET n == Alg_next(alg, inst[i])
     IN  /\ inst' = [j \in Instances |-> n.state]
         /\ outs' = [outs EXCEPT ![i] = Append(@, n.result)]
  /\ UNCHANGED <<alg, seed, samplerVars, convVars>>

\* next() on instance i.
GenNext(i) ==
  /\ Quiet
  /\ Len(outs[i]) < MaxCalls
  /\ LET n == Alg_next(alg, inst[i])
     IN  /\ inst' = [inst EXCEPT ![i] = n.state]
         /\ outs' = [outs EXCEPT ![i] = Append(@, n.result)]
  /\ UNCHANGED <<alg, seed, samplerVars, convVars>>

\* main(): Lemire on a range whose first draw from Xorshift32(777) is rejected.
InitGen ==
  /\ IdleSamplers({ <<\h8000, \h0001>> }, { <<0, 777>> })
  /\ \E c \in Catalogue :
       /\ alg = c.alg
       /\ seed = c.seed
       /\ inst = [i \in Instances |-> c.seed]
  /\ outs = [i \in Instances |-> <<>>]
  /\ NoConversions

NextGen ==
  \/ \E i \in Instances : GenNext(i)
  \/ NextBounded("a")
  \/ Redraw("a")

SpecGen == InitGen /\ [][NextGen]_vars

----------------------------------------------------------------------------
(* The conversions to double.  A finite double is modelled by its value    *)
(* (-1)^neg * m * 2^e: m is a bit vector of 128 bits, of which a double    *)
(* holds at most 53 significant ones, and every operation rounds its exact *)
(* result to nearest, ties to even, as IEEE 754 arithmetic does.  The      *)
(* exponents that occur are far from the ends of the double's range.       *)

Wide(v) == Cast(v, 128)

\* The number of bits of m up to its most significant 1.
BitLen(m) ==
  IF \A i \in 1..Len(m) : m[i] = 0 THEN 0
  ELSE CHOOSE i \in 1..Len(m) : m[i] = 1 /\ \A j \in (i + 1)..Len(m) : m[j] = 0

\* The double nearest to (-1)^neg * m * 2^e, ties to even.
Round53(neg, m, e) ==
  LET k == BitLen(m) - 53
  IN  IF k <= 0 THEN [neg |-> neg, m |-> m, e |-> e]
      ELSE LET q  == Shr(m, k)
               up == /\ m[k] = 1
                     /\ (q[1] = 1 \/ \E j \in 1..(k - 1) : m[j] = 1)
           IN  [neg |-> neg,
                m   |-> IF up THEN Add(q, Wide(<<1>>)) ELSE q,
                e   |-> e + k]

\* (double) of a uint64_t.
FromUint64(x) == Round53(FALSE, Wide(x), 0)

\* (double) of an int: the 32 bits are read in two's complement.
FromInt32(x) ==
  IF x[32] = 1 THEN Round53(TRUE, Wide(Neg(x)), 0)
  ELSE Round53(FALSE, Wide(x), 0)

\* The double whose representation is the 64 bits i (a number, not an
\* infinity or a NaN): sign, 11 bits of biased exponent, 52 bits of fraction.
FromBits(i) ==
  LET field == SumBits(i, 53, 63)
      frac  == Wide(Cast(i, 52))
  IN  IF field = 0 THEN [neg |-> i[64] = 1, m |-> frac, e |-> -1074]
      ELSE [neg |-> i[64] = 1,
            m   |-> Or(frac, Shl(Wide(<<1>>), 52)),
            e   |-> field - 1075]

\* a * b on doubles.
DMul(a, b) == Round53(a.neg # b.neg, Mul(a.m, b.m), a.e + b.e)

\* a + b on doubles whose exponents differ by less than 64.
DAdd(a, b) ==
  LET e  == IF a.e < b.e THEN a.e ELSE b.e
      ma == Shl(a.m, a.e - e)
      mb == Shl(b.m, b.e - e)
  IN  IF a.neg = b.neg THEN Round53(a.neg, Add(ma, mb), e)
      ELSE IF Lt(ma, mb) THEN Round53(b.neg, Sub(mb, ma), e)
      ELSE Round53(a.neg, Sub(ma, mb), e)

\* a - b on doubles.
DSub(a, b) == DAdd(a, [b EXCEPT !.neg = ~b.neg])

\* The literals 0x1.0p-53, 1.0 and 0.5.
Lit_0x1p_53 == [neg |-> FALSE, m |-> Wide(<<1>>), e |-> -53]
Lit_1_0     == [neg |-> FALSE, m |-> Wide(<<1>>), e |-> 0]
Lit_0_5     == [neg |-> FALSE, m |-> Wide(<<1>>), e |-> -1]

\* #define M_RAN_INVM32 2.32830643653869628906e-010: the decimal is below
\* 2^-32 = 2.3283064365386962890625e-10 by 2.5e-31, far less than half a unit
\* in the last place, so the double it denotes is 2^-32.
M_RAN_INVM32 == [neg |-> FALSE, m |-> Wide(<<1>>), e |-> -32]

\* The value of a double in lowest terms: m odd or 0, packed.  This is what
\* print's "%.20e" output is determined by.
Value(d) ==
  IF BitLen(d.m) = 0 THEN [neg |-> FALSE, m |-> <<0, 0, 0, 0>>, e |-> 0]
  ELSE LET tz == (CHOOSE i \in 1..Len(d.m) :
                    d.m[i] = 1 /\ \A j \in 1..(i - 1) : d.m[j] = 0) - 1
       IN  [neg |-> d.neg, m |-> Pack(Cast(Shr(d.m, tz), 64)), e |-> d.e + tz]

\* return (x >> 11) * 0x1.0p-53;
vigna_uint64_to_double_mult(x) ==
  DMul(FromUint64(Shr(x, 11)), Lit_0x1p_53)

\* u = { .i = UINT64_C(0x3FF) << 52 | x >> 12 }; return u.d - 1.0;
vigna_uint64_to_double_alt(x) ==
  DSub(FromBits(Or(Shl(Bits(<<\h3FF>>, 64), 52), Shr(x, 12))), Lit_1_0)

\* Variant of RANDBL_32 without the (int) cast: the uint32_t is converted
\* to double as it is.
RANDBL_32_unsigned(iRan1) ==
  DAdd(DMul(FromUint64(Cast(iRan1, 64)), M_RAN_INVM32), Lit_0_5)

\* #define RANDBL_32(iRan1) ((int)(iRan1)*M_RAN_INVM32 + 0.5)
RANDBL_32(iRan1) ==
  DAdd(DMul(FromInt32(iRan1), M_RAN_INVM32), Lit_0_5)

\* print() has not run.
NotPrinted == <<>>

\* The 64-bit patterns given to the conversions: every word of four limbs
\* from ConvLimbs, among them 0 and 0xFFFFFFFFFFFFFFFF.
ConvLimbs == {0, 1, \h0800, \h8000, \hFFFF}

\* Alg64::print on a generator whose next() returns cin.
Print64 ==
  /\ conv = NotPrinted
  /\ LET x == Bits(cin, 64)
     IN  conv' = [randbl32     |-> <<>>,
                  doubles_mult |-> Value(vigna_uint64_to_double_mult(x)),
                  doubles_alt  |-> Value(vigna_uint64_to_double_alt(x))]
  /\ UNCHANGED <<cin, samplerVars, genVars>>

\* Alg32::print on a generator whose next() returns the high and then the low
\* half of cin: int32_t x = next(); ints.push_back(x); RANDBL_32(x); then
\* combined = (((uint64_t)ints[i])<<32)|ints[i+1].
Print32 ==
  /\ conv = NotPrinted
  /\ LET ints     == << Bits(<<cin[1], cin[2]>>, 32), Bits(<<cin[3], cin[4]>>, 32) >>
         combined == Or(Shl(Cast(ints[1], 64), 32), Cast(ints[2], 64))
     IN  conv' = [randbl32     |-> << Value(RANDBL_32(ints[1])),
                                      Value(RANDBL_32(ints[2])) >>,
                  doubles_mult |-> Value(vigna_uint64_to_double_mult(combined)),
                  doubles_alt  |-> Value(vigna_uint64_to_double_alt(combined))]
  /\ UNCHANGED <<cin, samplerVars, genVars>>

InitConv ==
  /\ IdleSamplers({ <<0, 1>> }, { <<0, 1>> })
  /\ NoGenerators
  /\ cin \in ConvLimbs \X ConvLimbs \X ConvLimbs \X ConvLimbs
  /\ conv = NotPrinted

NextConv == Print64 \/ Print32

SpecConv == InitConv /\ [][NextConv]_vars

----------------------------------------------------------------------------
(* Properties of the two samplers on uint32_t, under Spec.                 *)

\* (2^w - rng) mod rng, computed on w + 1 bits, where neither 2^w nor the
\* difference wraps.
WideThreshold(w, rng) ==
  LET r    == Cast(Bits(rng, w), w + 1)
      pow2 == Vec([i \in 1..(w + 1) |-> IF i = w + 1 THEN 1 ELSE 0])
  IN  Pack(Cast(Mod(Sub(pow2, r), r), w))

Min(m, n) == IF m < n THEN m ELSE n

\* C1: a Lemire sampler and a LemireOneil sampler, each on its own backing
\* generator started in the same state, return the same value on the k-th
\* nextBounded() call for every k, and after as many completed calls their
\* backing generators are in equal states, having made the same number of
\* raw draws.
C1_OneilMatchesLemire ==
  /\ \A k \in 1..Min(Len(bounded["a"]), Len(bounded["b"])) :
        bounded["a"][k] = bounded["b"][k]
  /\ (Quiet /\ calls["a"] = calls["b"]) =>
        (gen["a"] = gen["b"] /\ draws["a"] = draws["b"])

\* Both samplers have completed MaxCalls calls, some draw was rejected on the
\* way, and the last value returned is not 0.
C1_Witness ==
  /\ Quiet
  /\ Len(bounded["a"]) = MaxCalls /\ Len(bounded["b"]) = MaxCalls
  /\ draws["a"] > MaxCalls /\ draws["b"] > MaxCalls
  /\ bounded["b"][MaxCalls] # <<0, 0>>

\* C4: with range = 1 every nextBounded() call of both samplers returns 0
\* with exactly one raw draw: no call is ever inside the re-draw loop, no
\* division by zero happens, and every call begun has returned.
C4_RangeOne ==
  range = <<0, 1>> =>
    \A s \in Samplers :
       /\ pc[s] = "idle"
       /\ draws[s] = calls[s]
       /\ Len(bounded[s]) = calls[s]
       /\ \A k \in 1..Len(bounded[s]) : bounded[s][k] = <<0, 0>>
       /\ threshold[s] \in {NoThreshold, <<0, 0>>}

\* range = 1, both samplers have completed MaxCalls calls, the Lemire sampler
\* on raw value 0 (where the threshold is computed) and the LemireOneil
\* sampler too.
C4_Witness ==
  /\ range = <<0, 1>>
  /\ \A s \in Samplers : calls[s] = MaxCalls /\ Len(bounded[s]) = MaxCalls
  /\ gen["a"] = << <<0, 0>> >>
  /\ threshold["a"] = <<0, 0>> /\ threshold["b"] = <<0, 0>>

\* Raw values other than 0 with range = 1: the threshold is never computed.
C4_WitnessNonZero ==
  /\ range = <<0, 1>>
  /\ \A s \in Samplers : calls[s] = MaxCalls /\ threshold[s] = NoThreshold

\* C10: the threshold t LemireOneil computes equals the threshold Lemire
\* computes, and both equal (2^32 - range) mod range; the negation wraps
\* modulo 2^32; a threshold a call has computed is that value.
C10_SameThreshold ==
  /\ LemireOneil_t(WordBits, range).t = Lemire_threshold(WordBits, range)
  /\ Lemire_threshold(WordBits, range) = WideThreshold(WordBits, range)
  /\ Add(Neg(Bits(range, WordBits)), Bits(range, WordBits)) = ZeroBits(WordBits)
  /\ \A s \in Samplers :
       threshold[s] # NoThreshold => threshold[s] = WideThreshold(WordBits, range)

\* The LemireOneil sampler has computed the threshold of a range below
\* 2^32/3, where it reaches its "%=".
C10_Witness ==
  /\ range = <<0, 3>>
  /\ threshold["b"] = <<0, 1>>
  /\ LemireOneil_t(WordBits, range).divides

\* range is a power of two: exactly one of its bits is set.
PowerOfTwo(rng) ==
  Cardinality({ i \in 1..WordBits : Bits(rng, WordBits)[i] = 1 }) = 1

\* The low word of x * range is at least (2^32 - range) mod range.
LowReachesThreshold(x) ==
  ~Lt(Cast(Mul(Cast(Bits(x, WordBits), 2 * WordBits),
               Cast(Bits(range, WordBits), 2 * WordBits)), WordBits),
      Bits(WideThreshold(WordBits, range), WordBits))

\* On a Xorshift32 in the all-zero state, which returns 0 for ever, and a
\* range that is no power of two, no nextBounded() call has returned.
C11_ZeroNeverReturns ==
  \A s \in Samplers :
     (gen[s] = << <<0, 0>> >> /\ ~PowerOfTwo(range)) =>
        /\ bounded[s] = <<>>
        /\ calls[s] > 0 => pc[s] = "loop"

\* A step that draws a raw value for sampler s (the entry of a call, or an
\* iteration of its loop) returns exactly when the low word of the product
\* with that value reaches the threshold; the raw value drawn is the new
\* state of the Xorshift32.  However many draws were rejected before, a
\* rejected draw leaves the call in its loop.
C11_ReturnsAtFirstAccepted ==
  \A s \in Samplers :
     (calls'[s] # calls[s] \/ pc[s] = "loop") =>
        /\ pc'[s] = "idle" <=> LowReachesThreshold(gen'[s][1])
        /\ pc'[s] = "loop" <=> ~LowReachesThreshold(gen'[s][1])
        /\ pc'[s] = "idle" => Len(bounded'[s]) = Len(bounded[s]) + 1

\* C11: the rejection loop has no iteration cap: while the backing generator
\* keeps returning a raw value whose low product word is below the
\* threshold (Xorshift32 in the all-zero state, range no power of two),
\* nextBounded() does not return; and a call returns at the first draw whose
\* low product word reaches the threshold.
C11_NoIterationCap == []C11_ZeroNeverReturns /\ [][C11_ReturnsAtFirstAccepted]_vars

\* The Lemire sampler on an all-zero Xorshift32 is still in its loop after as
\* many draws as are counted.
C11_Witness ==
  /\ range = <<0, 3>>
  /\ gen["a"] = << <<0, 0>> >>
  /\ pc["a"] = "loop"
  /\ draws["a"] = MaxDraws
  /\ bounded["a"] = <<>>

\* The LemireOneil sampler has returned from a call in which it rejected
\* draws.
C11_WitnessReturns ==
  /\ pc["b"] = "idle"
  /\ draws["b"] > calls["b"]
  /\ Len(bounded["b"]) = calls["b"]

\* C5 as the specification words it: with range = 0 no nextBounded() call
\* ever returns a value to its caller.
C5_RangeZeroReturnsNothing ==
  range = <<0, 0>> => \A s \in Samplers : bounded[s] = <<>>

----------------------------------------------------------------------------
(* Properties of the samplers on every range and every raw value, under    *)
(* SpecScaled.  The word has one limb, so its value is the integer word[1] *)
(* and the reference values below are computed with integer arithmetic.    *)

\* What nextBounded(), entered on range r, does with each raw value of the
\* word: the pairs <<x, the pass on x>>.
FirstPasses(class, r) ==
  { <<x, nextBounded_pass(class, SmallBits, r, TRUE, NoThreshold, x)>> :
      x \in ScaledWords }

\* C2: every value nextBounded() returns, from either sampler, on any range
\* from 1 up and any raw values, is at least 0 and below range, and the two
\* assertions of print hold of it.
C2_InRange ==
  \A s \in Samplers :
     /\ asserted[s]
     /\ \A k \in 1..Len(bounded[s]) :
          bounded[s][k][1] >= 0 /\ bounded[s][k][1] < range[1]

\* The LemireOneil sampler has returned range - 1 on the largest range, after
\* rejecting a draw.
C2_Witness ==
  /\ range = <<2^SmallBits - 1>>
  /\ bounded["b"] = << <<2^SmallBits - 2>> >>
  /\ draws["b"] = 2

\* C3: a raw draw x is accepted exactly when (x * range) mod 2^w is at least
\* (2^w - range) mod range, the value returned for it is floor(x * range /
\* 2^w), and every value below range is returned for the same number of raw
\* values, floor(2^w / range).
C3_Unbiased ==
  LET W == 2^SmallBits
      r == range[1]
      Accepts(x) == (x * r) % W >= (W - r) % r
  IN  /\ \A s \in Samplers :
           /\ pc[s] = "loop" => ~Accepts(gen[s][1][1])
           /\ (pc[s] = "idle" /\ calls[s] > 0) =>
                /\ Accepts(gen[s][1][1])
                /\ bounded[s] = << <<(gen[s][1][1] * r) \div W>> >>
      /\ (\A s \in Samplers : calls[s] = 0) =>
           \A c \in {"Lemire", "LemireOneil"} :
              \E passes \in {FirstPasses(c, range)} :
                 \A v \in 0..(r - 1) :
                    Cardinality({ q \in passes :
                                   q[2].done /\ q[2].value = <<v>> }) = W \div r

\* The Lemire sampler, on a range that does not divide 2^w, has rejected a
\* draw and accepted the next one.
C3_Witness ==
  /\ range = <<3>>
  /\ pc["a"] = "idle"
  /\ draws["a"] = 2
  /\ bounded["a"] = << <<2>> >>

----------------------------------------------------------------------------
(* Properties of the generators, under SpecGen.                            *)

\* Two instances with the same seed have returned the same value on every
\* call both have made.
C6_SameOutputs ==
  \A k \in 1..Min(Len(outs[1]), Len(outs[2])) : outs[1][k] = outs[2][k]

\* A step that is no next() call on instance i leaves the fields of i as they
\* were, and a step that draws nothing for sampler s leaves the fields of
\* its backing generator as they were.
C6_Isolated ==
  /\ \A i \in Instances : outs'[i] = outs[i] => inst'[i] = inst[i]
  /\ \A s \in Samplers : draws'[s] = draws[s] => gen'[s] = gen[s]

\* C6: every generator is deterministic and isolated: two instances of an
\* algorithm constructed with the same seed return the same value on their
\* n-th next() call, however the calls on the two and on a sampler with its
\* own generator are interleaved, and a call on one instance leaves the state
\* of every other instance unchanged.
C6_DeterministicIsolated == []C6_SameOutputs /\ [][C6_Isolated]_vars

\* Instance 2 has made all its calls, instance 1 one call less, the sampler
\* has rejected a draw in between, and the outputs are not all alike.
C6_Witness ==
  /\ Len(outs[2]) = MaxCalls
  /\ Len(outs[1]) = MaxCalls - 1
  /\ inst[1] # inst[2]
  /\ outs[2][1] # outs[2][2]
  /\ draws["a"] > calls["a"]
  /\ alg = "xoshiro256++"

Bit(v, i) == IF i \in 1..Len(v) THEN v[i] ELSE 0

\* a ^= a << 13; a ^= a >> 17; a ^= a << 5 on 32 bits, bit by bit: a shift
\* moves bit i - k (left) or i + k (right) to bit i and fills with 0.
Xorshift32_reference(a) ==
  LET x == Bits(a, 32)
      y == Vec([i \in 1..32 |-> (Bit(x, i) + Bit(x, i - 13)) % 2])
      z == Vec([i \in 1..32 |-> (Bit(y, i) + Bit(y, i + 17)) % 2])
  IN  Pack(Vec([i \in 1..32 |-> (Bit(z, i) + Bit(z, i - 5)) % 2]))

\* C7: Xorshift32.next() replaces the state a by a^=a<<13; a^=a>>17; a^=a<<5
\* on 32 bits and returns the new state; seeded with 1 its first value is
\* 0x00042021.
C7_Xorshift32 ==
  alg = "xorshift32" =>
    \A i \in Instances :
       /\ \A k \in 1..Len(outs[i]) :
            outs[i][k] =
              Xorshift32_reference(IF k = 1 THEN seed[1] ELSE outs[i][k - 1])
       /\ inst[i] = << IF outs[i] = <<>> THEN seed[1] ELSE outs[i][Len(outs[i])] >>
       /\ (seed = << <<0, 1>> >> /\ outs[i] # <<>>) =>
            outs[i][1] = <<\h0004, \h2021>>

\* A Xorshift32 seeded with 1 has returned 0x00042021, 0x04080601 and a third
\* value.
C7_Witness ==
  /\ alg = "xorshift32"
  /\ seed = << <<0, 1>> >>
  /\ Len(outs[1]) = MaxCalls
  /\ outs[1][1] = <<\h0004, \h2021>>
  /\ outs[1][2] = <<\h0408, \h0601>>
  /\ inst[1] = << outs[1][MaxCalls] >>

ZeroSeeded ==
  /\ alg \in {"xorshift32", "xorshift64", "xorshift128"}
  /\ \A j \in 1..Len(seed) : \A l \in 1..Len(seed[j]) : seed[j][l] = 0

\* C9: a xorshift32, xorshift64 or xorshift128 constructed with an all-zero
\* state exists, every next() call made on it has returned 0 and left the
\* state all-zero, and so does the call that can be made next.
C9_ZeroIsFixedPoint ==
  ZeroSeeded =>
    \A i \in Instances :
       /\ inst[i] = seed
       /\ \A k \in 1..Len(outs[i]) : \A l \in 1..Len(outs[i][k]) : outs[i][k][l] = 0
       /\ Alg_next(alg, inst[i]).state = seed
       /\ \A l \in 1..Len(seed[1]) : Alg_next(alg, inst[i]).result[l] = 0

\* An all-zero xorshift64 has made all its calls.
C9_Witness ==
  /\ ZeroSeeded
  /\ alg = "xorshift64"
  /\ Len(outs[1]) = MaxCalls
  /\ outs[1][MaxCalls] = <<0, 0, 0, 0>>

\* An all-zero xorshift128 has made all its calls.
C9_Witness128 ==
  /\ ZeroSeeded
  /\ alg = "xorshift128"
  /\ Len(outs[2]) = MaxCalls

----------------------------------------------------------------------------
(* Properties of the conversions, under SpecConv.                          *)

\* The double d is at least 0 and below 1: m * 2^e < 1 when m has at most -e
\* bits.
InUnitInterval(d) ==
  /\ ~d.neg
  /\ BitLen(Bits(d.m, 64)) <= -d.e

\* The number n * 2^e, n a 64-bit unsigned integer, in lowest terms.
Dyadic(n, e) == Value([neg |-> FALSE, m |-> Wide(n), e |-> e])

\* C8: for every 64-bit input x the multiplicative conversion is (x>>11)/2^53
\* and the bit-cast conversion is (x>>12)/2^52; for every 32-bit input the
\* Doornik conversion is (signed32(x) + 2^31)/2^32, and signed32(x) + 2^31 is
\* x with its top bit inverted; each result is at least 0 and below 1.
C8_Conversions ==
  conv # NotPrinted =>
    LET x     == Bits(cin, 64)
        halfs == << Bits(<<cin[1], cin[2]>>, 32), Bits(<<cin[3], cin[4]>>, 32) >>
        top   == Shl(Bits(<<0, 1>>, 32), 31)
    IN  /\ conv.doubles_mult = Dyadic(Shr(x, 11), -53)
        /\ conv.doubles_alt = Dyadic(Shr(x, 12), -52)
        /\ InUnitInterval(conv.doubles_mult)
        /\ InUnitInterval(conv.doubles_alt)
        /\ \A j \in 1..Len(conv.randbl32) :
             /\ conv.randbl32[j] = Dyadic(Cast(Xor(halfs[j], top), 64), -32)
             /\ InUnitInterval(conv.randbl32[j])

\* The input 0xFFFFFFFFFFFFFFFF has been converted by Alg32::print: the
\* 64-bit conversions give (2^53-1)/2^53 and (2^52-1)/2^52, the Doornik
\* conversion of 0xFFFFFFFF (-1 as an int) gives (2^31-1)/2^32.
C8_Witness ==
  /\ cin = <<\hFFFF, \hFFFF, \hFFFF, \hFFFF>>
  /\ conv # NotPrinted
  /\ conv.doubles_mult = [neg |-> FALSE, m |-> <<\h001F, \hFFFF, \hFFFF, \hFFFF>>, e |-> -53]
  /\ conv.doubles_alt = [neg |-> FALSE, m |-> <<\h000F, \hFFFF, \hFFFF, \hFFFF>>, e |-> -52]
  /\ Len(conv.randbl32) = 2
  /\ conv.randbl32[1] = [neg |-> FALSE, m |-> <<0, 0, \h7FFF, \hFFFF>>, e |-> -32]

\* The input 0 has been converted by Alg64::print: both results are 0.
C8_WitnessZero ==
  /\ cin = <<0, 0, 0, 0>>
  /\ conv # NotPrinted
  /\ conv.randbl32 = <<>>
  /\ conv.doubles_mult = [neg |-> FALSE, m |-> <<0, 0, 0, 0>>, e |-> 0]
  /\ conv.doubles_alt = [neg |-> FALSE, m |-> <<0, 0, 0, 0>>, e |-> 0]

\* One step of mulberry32 on a 32-bit state, every operation modulo 2^32.
Mulberry32_reference(x) ==
  LET x1 == Add(x, Bits(<<\h6D2B, \h79F5>>, 32))
      z1 == Mul(Xor(x1, Shr(x1, 15)), Or(x1, Bits(<<1>>, 32)))
      z2 == Xor(z1, Add(z1, Mul(Xor(z1, Shr(z1, 7)), Or(z1, Bits(<<61>>, 32)))))
  IN  [state |-> x1, result |-> Pack(Xor(z2, Shr(z2, 14)))]

RECURSIVE Mulberry32_referenceOutput(_, _)
\* The n-th output of the reference started in the 32-bit state x.
Mulberry32_referenceOutput(x, n) ==
  LET r == Mulberry32_reference(x)
  IN  IF n <= 1 THEN r.result ELSE Mulberry32_referenceOutput(r.state, n - 1)

\* C12: Mulberry32 keeps a 64-bit state but its n-th output is the n-th
\* output of the reference mulberry32 that starts from seed mod 2^32 and
\* computes every step modulo 2^32; the reference never sees the bits of the
\* state above bit 31, so they influence no output.
C12_Mulberry32 ==
  alg = "mulberry32" =>
    \A i \in Instances : \A n \in 1..Len(outs[i]) :
       outs[i][n] = Mulberry32_referenceOutput(Cast(Bits(seed[1], 64), 32), n)

\* A Mulberry32 whose additions carried into bit 32 of the stored state has
\* made all its calls.
C12_Witness ==
  /\ alg = "mulberry32"
  /\ seed = << <<0, 0, \hFFFF, \hFFFF>> >>
  /\ Len(outs[1]) = MaxCalls
  /\ inst[1][1][2] # 0

\* A Mulberry32 seeded above 2^32 has made all its calls.
C12_WitnessHighSeed ==
  /\ alg = "mulberry32"
  /\ seed = << <<\h0123, \h4567, 0, 1>> >>
  /\ Len(outs[2]) = MaxCalls
  /\ inst[2][1][1] = \h0123

=============================================================================
